---- MODULE Spec2Model ----
(***************************************************************************)
(* Model of apps/sublime_key_logger.py: the translation of Talon key specs *)
(* into dotool action lines, and the "main" key action that forwards them  *)
(* to dotoolc.                                                             *)
(*                                                                         *)
(* A Python str is a sequence of lexemes.  A lexeme is either one          *)
(* character ("a", "-", ":", " ", "0", ...) or a whole word ("ctrl",       *)
(* "down", ...) whose characters are never inspected one at a time by the  *)
(* program except through len().  The lexemes form a uniquely decodable    *)
(* code, so two different sequences are two different Python strings.      *)
(* "^2" stands for the single character U+00B2 SUPERSCRIPT TWO.            *)
(***************************************************************************)
EXTENDS Integers, Sequences, FiniteSets, TLC

VARIABLES
    \* MainActions.key
    pc,         \* position in MainActions.key
    key_spec,   \* the argument of MainActions.key
    actions,    \* the local `actions`
    raised,     \* the exception in flight, "none" when there is none
    dotoolc,    \* the stdin of every dotoolc run of this call, in order
    stderr,     \* the lines this call printed on sys.stderr
    \* _dotool_actions_for_chord
    cpc,        \* position in _dotool_actions_for_chord
    chord,      \* the argument `chord`
    base,       \* the local `base`
    action,     \* the local `action`
    repeat,     \* the local `repeat`
    mods,       \* the local `mods`
    key,        \* the local `key`
    result      \* the return value

vars == <<pc, key_spec, actions, raised, dotoolc, stderr,
          cpc, chord, base, action, repeat, mods, key, result>>

keyVars == <<pc, key_spec, actions, raised, dotoolc, stderr>>

chordVars == <<cpc, chord, base, action, repeat, mods, key, result>>

-----------------------------------------------------------------------------
(* Bounds of the model. *)

\* Longest key spec handed to MainActions.key, in lexemes.
MaxKeyLen == 4

\* Most "-"-separated parts of a chord handed to _dotool_actions_for_chord.
MaxParts == 3

\* Largest repeat count written in a key spec handed to MainActions.key.
MaxRepeat == 30

-----------------------------------------------------------------------------
(* Python str primitives over lexeme sequences. *)

\* The lexemes that are a single character.
SingleChars ==
    {"a", "A", "x", "k", "-", ":", " ", "\n", ",", "+", "0", "3", "^2"}

\* len() of one lexeme.
LexLen(c) ==
    IF c \in SingleChars THEN 1
    ELSE CASE c = "up" -> 2
           [] c = "kp" -> 2
           [] c = "esc" -> 3
           [] c = "key" -> 3
           [] c = "ctrl" -> 4
           [] c = "down" -> 4
           [] c = "shift" -> 5
           [] c = "super" -> 5
           [] c = "comma" -> 5
           [] c = "keyup" -> 5
           [] c = "keydown" -> 7
           [] c = "keypad_" -> 7
           [] OTHER -> 2

\* len(s)
RECURSIVE StrLen(_)
StrLen(s) ==
    IF s = <<>> THEN 0 ELSE LexLen(Head(s)) + StrLen(Tail(s))

\* str.isspace of one character: split() and strip() cut at these.
WhiteSpace == {" ", "\n"}

\* Characters for which str.isdigit() is true.  int() accepts only the
\* decimal ones; U+00B2 is a digit (Numeric_Type=Digit) but not a decimal.
DecimalDigits == {"0", "3"}

DigitChars == DecimalDigits \cup {"^2"}

DigitValue(c) ==
    IF c = "0" THEN 0 ELSE 3

\* str.isdigit(): non-empty and every character a digit.
IsDigit(s) ==
    /\ s # <<>>
    /\ \A i \in 1..Len(s) : s[i] \in DigitChars

\* int(s) of a string for which isdigit() holds: the decimal value, or a
\* ValueError when a character is not a decimal digit.
RECURSIVE DecimalValue(_)
DecimalValue(s) ==
    IF s = <<>> THEN 0
    ELSE 10 * DecimalValue(SubSeq(s, 1, Len(s) - 1)) + DigitValue(s[Len(s)])

IntRaises(s) ==
    \E i \in 1..Len(s) : s[i] \notin DecimalDigits

\* str.isalpha() and str.isupper() of a one-character string.
AlphaChars == {"a", "A", "x", "k"}

UpperChars == {"A"}

\* str.lower()
LowerLex(c) ==
    IF c = "A" THEN "a" ELSE c

Lower(s) ==
    [i \in 1..Len(s) |-> LowerLex(s[i])]

\* s.startswith(p)
StartsWith(s, p) ==
    /\ Len(s) >= Len(p)
    /\ SubSeq(s, 1, Len(p)) = p

\* s.split(sep) for a one-character sep: always at least one part.
RECURSIVE SplitOn(_, _)
SplitOn(s, sep) ==
    IF \A i \in 1..Len(s) : s[i] # sep THEN <<s>>
    ELSE LET i == CHOOSE j \in 1..Len(s) :
                      /\ s[j] = sep
                      /\ \A h \in 1..(j - 1) : s[h] # sep
         IN <<SubSeq(s, 1, i - 1)>> \o SplitOn(SubSeq(s, i + 1, Len(s)), sep)

\* sep.join(parts)
RECURSIVE Join(_, _)
Join(sep, parts) ==
    IF parts = <<>> THEN <<>>
    ELSE IF Len(parts) = 1 THEN parts[1]
    ELSE parts[1] \o sep \o Join(sep, Tail(parts))

\* s.strip()
RECURSIVE Strip(_)
Strip(s) ==
    IF s = <<>> THEN s
    ELSE IF Head(s) \in WhiteSpace THEN Strip(Tail(s))
    ELSE IF s[Len(s)] \in WhiteSpace THEN Strip(SubSeq(s, 1, Len(s) - 1))
    ELSE s

\* s.split(): cut at runs of whitespace, no empty parts.
RECURSIVE SplitWhite(_)
SplitWhite(s) ==
    IF s = <<>> THEN <<>>
    ELSE IF Head(s) \in WhiteSpace THEN SplitWhite(Tail(s))
    ELSE IF \A i \in 1..Len(s) : s[i] \notin WhiteSpace THEN <<s>>
    ELSE LET i == CHOOSE j \in 1..Len(s) :
                      /\ s[j] \in WhiteSpace
                      /\ \A h \in 1..(j - 1) : s[h] \notin WhiteSpace
         IN <<SubSeq(s, 1, i - 1)>> \o SplitWhite(SubSeq(s, i + 1, Len(s)))

\* reversed(t)
Reversed(t) ==
    [i \in 1..Len(t) |-> t[Len(t) + 1 - i]]

-----------------------------------------------------------------------------
(* The lookup tables of keymap_dotool, a module of the repository that is  *)
(* not part of the sources at hand: the entries the specification names.   *)

\* MODIFIER_ALIASES: Talon modifier name -> dotool modifier name.
MODIFIER_ALIASES ==
    (<<"ctrl">> :> <<"ctrl">>) @@ (<<"shift">> :> <<"shift">>)
        @@ (<<"super">> :> <<"super">>)

\* SYMBOL_KEY_MAP: symbol -> dotool key name.
SYMBOL_KEY_MAP ==
    (<<",">> :> <<"comma">>)

\* KEY_NAME_MAP: lowercased Talon key name -> dotool key name.
KEY_NAME_MAP ==
    (<<"esc">> :> <<"esc">>)

-----------------------------------------------------------------------------
(* The translation functions. *)

\* _normalize_key_name(key)
_normalize_key_name(k) ==
    IF k = <<>> THEN k
    ELSE IF k \in DOMAIN SYMBOL_KEY_MAP THEN SYMBOL_KEY_MAP[k]
    ELSE IF StartsWith(k, <<"keypad_">>)
         THEN <<"kp">> \o SubSeq(k, 2, Len(k))
    ELSE LET key_lower == Lower(k)
             k2 == IF /\ ~StartsWith(k, <<"x", ":">>)
                      /\ ~StartsWith(k, <<"k", ":">>)
                   THEN key_lower
                   ELSE k
         IN IF k2 \in DOMAIN KEY_NAME_MAP THEN KEY_NAME_MAP[k2] ELSE k2

\* The loop of _split_modifiers over the parts from index i on.
RECURSIVE SplitLoop(_, _, _, _)
SplitLoop(parts, i, ms, key_parts) ==
    IF i > Len(parts) THEN [mods |-> ms, key |-> Join(<<"-">>, key_parts)]
    ELSE IF key_parts = <<>> /\ parts[i] \in DOMAIN MODIFIER_ALIASES
         THEN SplitLoop(parts, i + 1,
                        Append(ms, MODIFIER_ALIASES[parts[i]]), key_parts)
         ELSE SplitLoop(parts, i + 1, ms, Append(key_parts, parts[i]))

\* The loop of _split_modifiers without the `not key_parts` test.
RECURSIVE SplitLoopAnywhere(_, _, _, _)
SplitLoopAnywhere(parts, i, ms, key_parts) ==
    IF i > Len(parts) THEN [mods |-> ms, key |-> Join(<<"-">>, key_parts)]
    ELSE IF parts[i] \in DOMAIN MODIFIER_ALIASES
         THEN SplitLoopAnywhere(parts, i + 1,
                                Append(ms, MODIFIER_ALIASES[parts[i]]),
                                key_parts)
         ELSE SplitLoopAnywhere(parts, i + 1, ms, Append(key_parts, parts[i]))

\* _split_modifiers with that loop.
_split_modifiers_anywhere(c) ==
    SplitLoopAnywhere(SplitOn(c, "-"), 1, <<>>, <<>>)

\* _split_modifiers(chord): [mods, key]
_split_modifiers(c) ==
    SplitLoop(SplitOn(c, "-"), 1, <<>>, <<>>)

\* _build_chord(mods, key)
_build_chord(ms, k) ==
    LET parts == IF k # <<>> THEN Append(ms, k) ELSE ms
    IN Join(<<"+">>, parts)

\* _mods_only_actions with `mods` in place of `reversed(mods)`.
_mods_only_actions_unreversed(ms) ==
    IF ms = <<>> THEN <<>>
    ELSE [i \in 1..Len(ms) |-> <<"keydown", " ">> \o ms[i]]
             \o [i \in 1..Len(ms) |-> <<"keyup", " ">> \o ms[i]]

\* _mods_only_actions(mods)
_mods_only_actions(ms) ==
    IF ms = <<>> THEN <<>>
    ELSE [i \in 1..Len(ms) |-> <<"keydown", " ">> \o ms[i]]
             \o [i \in 1..Len(ms) |-> <<"keyup", " ">> \o Reversed(ms)[i]]

\* chord.rsplit(":", 1) of a chord that holds a ":": [base, suffix]
RSplitColon(c) ==
    LET i == CHOOSE j \in 1..Len(c) :
                 /\ c[j] = ":"
                 /\ \A h \in (j + 1)..Len(c) : c[h] # ":"
    IN [base |-> SubSeq(c, 1, i - 1), suffix |-> SubSeq(c, i + 1, Len(c))]

Max(a, b) ==
    IF a >= b THEN a ELSE b

\* _parse_suffix with `int(suffix)` in place of `max(1, int(suffix))`.
_parse_suffix_unclamped(c) ==
    IF \A i \in 1..Len(c) : c[i] # ":"
    THEN [exc |-> "none", base |-> c, action |-> "key", repeat |-> 1]
    ELSE LET sp == RSplitColon(c)
         IN IF IsDigit(sp.suffix)
            THEN IF IntRaises(sp.suffix)
                 THEN [exc |-> "ValueError", base |-> sp.base,
                       action |-> "key", repeat |-> 0]
                 ELSE [exc |-> "none", base |-> sp.base, action |-> "key",
                       repeat |-> DecimalValue(sp.suffix)]
            ELSE IF sp.suffix = <<"down">>
            THEN [exc |-> "none", base |-> sp.base, action |-> "keydown",
                  repeat |-> 1]
            ELSE IF sp.suffix = <<"up">>
            THEN [exc |-> "none", base |-> sp.base, action |-> "keyup",
                  repeat |-> 1]
            ELSE [exc |-> "none", base |-> c, action |-> "key", repeat |-> 1]

\* _parse_suffix(chord): [exc, base, action, repeat]; exc is the exception
\* int() raises, "none" when the call returns.
_parse_suffix(c) ==
    IF \A i \in 1..Len(c) : c[i] # ":"
    THEN [exc |-> "none", base |-> c, action |-> "key", repeat |-> 1]
    ELSE LET sp == RSplitColon(c)
         IN IF IsDigit(sp.suffix)
            THEN IF IntRaises(sp.suffix)
                 THEN [exc |-> "ValueError", base |-> sp.base,
                       action |-> "key", repeat |-> 0]
                 ELSE [exc |-> "none", base |-> sp.base, action |-> "key",
                       repeat |-> Max(1, DecimalValue(sp.suffix))]
            ELSE IF sp.suffix = <<"down">>
            THEN [exc |-> "none", base |-> sp.base, action |-> "keydown",
                  repeat |-> 1]
            ELSE IF sp.suffix = <<"up">>
            THEN [exc |-> "none", base |-> sp.base, action |-> "keyup",
                  repeat |-> 1]
            ELSE [exc |-> "none", base |-> c, action |-> "key", repeat |-> 1]

\* _normalize_alpha_key without the `"shift" in mods` test.
_normalize_alpha_key_always_shift(k, ms) ==
    IF /\ k # <<>>
       /\ StrLen(k) = 1
       /\ k[1] \in AlphaChars
       /\ k[1] \in UpperChars
    THEN [mods |-> Append(ms, <<"shift">>), key |-> Lower(k)]
    ELSE [mods |-> ms, key |-> k]

\* _normalize_alpha_key(key, mods): [mods, key]
_normalize_alpha_key(k, ms) ==
    IF /\ k # <<>>
       /\ StrLen(k) = 1
       /\ k[1] \in AlphaChars
       /\ k[1] \in UpperChars
    THEN IF \E i \in 1..Len(ms) : ms[i] = <<"shift">>
         THEN [mods |-> ms, key |-> Lower(k)]
         ELSE [mods |-> Append(ms, <<"shift">>), key |-> Lower(k)]
    ELSE [mods |-> ms, key |-> k]

\* The tail of _dotool_actions_for_chord without its last line, the one that
\* repeats the action.
EmitActionsOnce(ms, k, act, rep) ==
    IF k = <<>> THEN _mods_only_actions(ms)
    ELSE LET chord_str == _build_chord(ms, k)
         IN IF act # "key" THEN << <<act, " ">> \o chord_str >>
            ELSE << <<"key", " ">> \o chord_str >>

\* The tail of _dotool_actions_for_chord, from `if not key` on.
EmitActions(ms, k, act, rep) ==
    IF k = <<>> THEN _mods_only_actions(ms)
    ELSE LET chord_str == _build_chord(ms, k)
         IN IF act # "key" THEN << <<act, " ">> \o chord_str >>
            ELSE IF rep <= 1 THEN << <<"key", " ">> \o chord_str >>
            ELSE [i \in 1..rep |-> <<"key", " ">> \o chord_str]

\* _dotool_actions_for_chord(chord): [exc, val]
_dotool_actions_for_chord(c0) ==
    LET c == Strip(c0)
    IN IF c = <<>> THEN [exc |-> "none", val |-> <<>>]
       ELSE LET ps == _parse_suffix(c)
            IN IF ps.exc # "none" THEN [exc |-> ps.exc, val |-> <<>>]
               ELSE LET sm == _split_modifiers(ps.base)
                        na == _normalize_alpha_key(sm.key, sm.mods)
                        k == _normalize_key_name(na.key)
                    IN [exc |-> "none",
                        val |-> EmitActions(na.mods, k, ps.action, ps.repeat)]

\* The comprehension of _talon_key_to_dotool_actions over the chords from
\* index i on, with the actions collected so far.
RECURSIVE ChordLoop(_, _, _)
ChordLoop(chords, i, acc) ==
    IF i > Len(chords) THEN [exc |-> "none", val |-> acc]
    ELSE LET r == _dotool_actions_for_chord(chords[i])
         IN IF r.exc # "none" THEN [exc |-> r.exc, val |-> <<>>]
            ELSE ChordLoop(chords, i + 1, acc \o r.val)

\* _talon_key_to_dotool_actions with the chords taken last to first.
_talon_key_to_dotool_actions_backwards(ks) ==
    ChordLoop(Reversed(SplitWhite(ks)), 1, <<>>)

\* _talon_key_to_dotool_actions(key_spec): [exc, val]
_talon_key_to_dotool_actions(ks) ==
    ChordLoop(SplitWhite(ks), 1, <<>>)

-----------------------------------------------------------------------------
(* MainActions.key: one call after another. *)

\* The lexemes key specs are written with.
KeyAlphabet ==
    {"ctrl", "a", "A", "-", ":", " ", "0", "3", "^2", "down"}

\* The key specs the host hands to MainActions.key: every string over the
\* alphabet, up to the bounds on its length and on the repeat counts in it.
KeySpecs ==
    {ks \in UNION {[1..n -> KeyAlphabet] : n \in 0..MaxKeyLen} :
        \A i \in 1..Len(SplitWhite(ks)) :
            _parse_suffix(SplitWhite(ks)[i]).repeat <= MaxRepeat}

\* What a run of dotoolc can end in.
RunOutcomes ==
    {"exit0", "nonzero", "launch_failure", "timeout"}

Init ==
    /\ pc = "idle"
    /\ key_spec = <<>>
    /\ actions = <<>>
    /\ raised = "none"
    /\ dotoolc = <<>>
    /\ stderr = <<>>
    /\ cpc = "off"
    /\ chord = <<>>
    /\ base = <<>>
    /\ action = ""
    /\ repeat = 0
    /\ mods = <<>>
    /\ key = <<>>
    /\ result = <<>>

\* The host calls key(ks) with some key spec ks; the first print.
KeyCall ==
    /\ pc = "idle"
    /\ pc' = "try"
    /\ key_spec' \in KeySpecs
    /\ stderr' = <<[msg |-> "sublime key", arg |-> key_spec']>>
    /\ actions' = <<>>
    /\ raised' = "none"
    /\ dotoolc' = <<>>
    /\ UNCHANGED chordVars

\* Translate with the call of _talon_key_to_dotool_actions in front of the
\* try block: what it raises leaves MainActions.key.
TranslateOutsideTry ==
    /\ pc = "try"
    /\ LET r == _talon_key_to_dotool_actions(key_spec)
       IN IF r.exc # "none"
          THEN /\ raised' = r.exc
               /\ pc' = "return"
               /\ UNCHANGED actions
          ELSE /\ actions' = r.val
               /\ pc' = IF r.val = <<>> THEN "return" ELSE "run"
               /\ UNCHANGED raised
    /\ UNCHANGED <<key_spec, dotoolc, stderr>>
    /\ UNCHANGED chordVars

\* actions = _talon_key_to_dotool_actions(key); if not actions: return
Translate ==
    /\ pc = "try"
    /\ LET r == _talon_key_to_dotool_actions(key_spec)
       IN IF r.exc # "none"
          THEN /\ raised' = r.exc
               /\ pc' = "except"
               /\ UNCHANGED actions
          ELSE /\ actions' = r.val
               /\ pc' = IF r.val = <<>> THEN "return" ELSE "run"
               /\ UNCHANGED raised
    /\ UNCHANGED <<key_spec, dotoolc, stderr>>
    /\ UNCHANGED chordVars

\* subprocess.run(["dotoolc"], input="\n".join(actions) + "\n",
\*                check=False, timeout=0.5)
RunDotoolc(outcome) ==
    /\ pc = "run"
    /\ dotoolc' = Append(dotoolc,
                         [input |-> Join(<<"\n">>, actions) \o <<"\n">>,
                          outcome |-> outcome])
    /\ IF outcome = "launch_failure"
       THEN raised' = "OSError" /\ pc' = "except"
       ELSE IF outcome = "timeout"
       THEN raised' = "TimeoutExpired" /\ pc' = "except"
       ELSE raised' = "none" /\ pc' = "return"
    /\ UNCHANGED <<key_spec, actions, stderr>>
    /\ UNCHANGED chordVars

\* except Exception as exc: print(...)
Except ==
    /\ pc = "except"
    /\ stderr' = Append(stderr, [msg |-> "sublime dotool error", arg |-> raised])
    /\ raised' = "none"
    /\ pc' = "return"
    /\ UNCHANGED <<key_spec, actions, dotoolc>>
    /\ UNCHANGED chordVars

\* The call ends: normally when no exception is in flight.
Return ==
    /\ pc = "return"
    /\ pc' = "idle"
    /\ key_spec' = <<>>
    /\ actions' = <<>>
    /\ raised' = "none"
    /\ dotoolc' = <<>>
    /\ stderr' = <<>>
    /\ UNCHANGED chordVars

Next ==
    \/ KeyCall
    \/ Translate
    \/ \E outcome \in RunOutcomes : RunDotoolc(outcome)
    \/ Except
    \/ Return

Spec == Init /\ [][Next]_vars

-----------------------------------------------------------------------------
(* _dotool_actions_for_chord, statement by statement, on one chord. *)

\* The parts chords are written with, between "-".
PartSet ==
    {<<>>, <<"ctrl">>, <<"shift">>, <<"super">>, <<"a">>, <<"A">>, <<",">>,
     <<"esc">>, <<"x">>, <<"x", ":", "A">>, <<"keypad_", "3">>}

\* The suffixes chords are written with.
SuffixSet ==
    {<<>>, <<":">>, <<":", "down">>, <<":", "up">>, <<":", "0">>,
     <<":", "0", "0">>, <<":", "3">>, <<":", "^2">>, <<":", "-", "3">>}

Bases ==
    {Join(<<"-">>, ps) : ps \in UNION {[1..n -> PartSet] : n \in 1..MaxParts}}

\* The chords handed to _dotool_actions_for_chord; the last three are the
\* ones strip() changes.
Chords ==
    {b \o s : b \in Bases, s \in SuffixSet}
        \cup {<<" ">>, <<" ", "a", " ">>, <<"ctrl", "-", "a", "\n">>}

InitChord ==
    /\ pc = "idle"
    /\ key_spec = <<>>
    /\ actions = <<>>
    /\ raised = "none"
    /\ dotoolc = <<>>
    /\ stderr = <<>>
    /\ cpc = "strip"
    /\ chord \in Chords
    /\ base = <<>>
    /\ action = ""
    /\ repeat = 0
    /\ mods = <<>>
    /\ key = <<>>
    /\ result = <<>>

\* chord = chord.strip(); if not chord: return []
StripChord ==
    /\ cpc = "strip"
    /\ chord' = Strip(chord)
    /\ cpc' = IF Strip(chord) = <<>> THEN "done" ELSE "parse"
    /\ UNCHANGED <<base, action, repeat, mods, key, result>>
    /\ UNCHANGED keyVars

\* base, action, repeat = _parse_suffix(chord)
ParseSuffix ==
    /\ cpc = "parse"
    /\ LET ps == _parse_suffix(chord)
       IN IF ps.exc # "none"
          THEN /\ cpc' = "raised"
               /\ UNCHANGED <<base, action, repeat>>
          ELSE /\ cpc' = "split"
               /\ base' = ps.base
               /\ action' = ps.action
               /\ repeat' = ps.repeat
    /\ UNCHANGED <<chord, mods, key, result>>
    /\ UNCHANGED keyVars

\* mods, key = _split_modifiers(base)
SplitModifiers ==
    /\ cpc = "split"
    /\ mods' = _split_modifiers(base).mods
    /\ key' = _split_modifiers(base).key
    /\ cpc' = "alpha"
    /\ UNCHANGED <<chord, base, action, repeat, result>>
    /\ UNCHANGED keyVars

\* mods, key = _normalize_alpha_key(key, mods)
NormalizeAlphaKey ==
    /\ cpc = "alpha"
    /\ mods' = _normalize_alpha_key(key, mods).mods
    /\ key' = _normalize_alpha_key(key, mods).key
    /\ cpc' = "name"
    /\ UNCHANGED <<chord, base, action, repeat, result>>
    /\ UNCHANGED keyVars

\* key = _normalize_key_name(key)
NormalizeKeyName ==
    /\ cpc = "name"
    /\ key' = _normalize_key_name(key)
    /\ cpc' = "emit"
    /\ UNCHANGED <<chord, base, action, repeat, mods, result>>
    /\ UNCHANGED keyVars

\* if not key: return _mods_only_actions(mods) ... return [...]
Emit ==
    /\ cpc = "emit"
    /\ result' = EmitActions(mods, key, action, repeat)
    /\ cpc' = "done"
    /\ UNCHANGED <<chord, base, action, repeat, mods, key>>
    /\ UNCHANGED keyVars

NextChord ==
    \/ StripChord
    \/ ParseSuffix
    \/ SplitModifiers
    \/ NormalizeAlphaKey
    \/ NormalizeKeyName
    \/ Emit

SpecChord == InitChord /\ [][NextChord]_vars

-----------------------------------------------------------------------------
(* What the claims speak of, read off the text of a chord. *)

\* s.endswith(p)
EndsWith(s, p) ==
    /\ Len(s) >= Len(p)
    /\ SubSeq(s, Len(s) - Len(p) + 1, Len(s)) = p

HasColon(c) ==
    \E i \in 1..Len(c) : c[i] = ":"

\* The text after the last ":" of a chord that holds one.
SuffixText(c) ==
    LET last == CHOOSE i \in 1..Len(c) :
                    c[i] = ":" /\ \A j \in 1..Len(c) : c[j] = ":" => j <= i
    IN SubSeq(c, last + 1, Len(c))

\* A non-empty string of decimal digits.
IsNumber(s) ==
    Len(s) >= 1 /\ \A i \in 1..Len(s) : s[i] \in {"0", "3"}

\* Its value, most significant digit first.
RECURSIVE NumberFrom(_, _)
NumberFrom(s, acc) ==
    IF s = <<>> THEN acc
    ELSE NumberFrom(Tail(s), 10 * acc + (IF Head(s) = "3" THEN 3 ELSE 0))

\* The chord ends in ":N", N a number of value 0.
ZeroSuffix(c) ==
    HasColon(c) /\ IsNumber(SuffixText(c)) /\ NumberFrom(SuffixText(c), 0) = 0

\* The chord ends in ":-N", N a number.
NegativeSuffix(c) ==
    /\ HasColon(c)
    /\ Len(SuffixText(c)) >= 2
    /\ Head(SuffixText(c)) = "-"
    /\ IsNumber(Tail(SuffixText(c)))

\* The chord ends in ":N", N a number of value 1 or more.
PositiveSuffix(c) ==
    HasColon(c) /\ IsNumber(SuffixText(c)) /\ NumberFrom(SuffixText(c), 0) >= 1

\* How many of the leading "-"-separated parts of c are modifier names.
PrefixLen(c) ==
    LET parts == SplitOn(c, "-")
    IN CHOOSE k \in 0..Len(parts) :
           /\ \A i \in 1..k : parts[i] \in DOMAIN MODIFIER_ALIASES
           /\ k < Len(parts) => parts[k + 1] \notin DOMAIN MODIFIER_ALIASES

\* The modifiers written in front of c, and the rest of c.
WrittenMods(c) ==
    [i \in 1..PrefixLen(c) |-> MODIFIER_ALIASES[SplitOn(c, "-")[i]]]

WrittenKey(c) ==
    LET parts == SplitOn(c, "-")
    IN Join(<<"-">>, SubSeq(parts, PrefixLen(c) + 1, Len(parts)))

\* One uppercase letter.
IsUpperLetter(k) ==
    Len(k) = 1 /\ k[1] \in {"A"}

\* A key with a raw-keycode prefix and something after it.
IsRawKeycode(k) ==
    /\ Len(k) >= 3
    /\ SubSeq(k, 1, 2) \in {<<"x", ":">>, <<"k", ":">>}

\* The line "<verb> <modifiers and key joined by +>".
Line(verb, ms, k) ==
    <<verb, " ">> \o Join(<<"+">>, IF k = <<>> THEN ms ELSE Append(ms, k))

\* The lines of a newline-terminated batch.
Lines(batch) ==
    LET parts == SplitOn(batch, "\n")
    IN SubSeq(parts, 1, Len(parts) - 1)

-----------------------------------------------------------------------------
(* The claims. *)

\* C1: a chord with suffix ":down" or ":up" whose base yields a non-empty
\* chord string emits exactly one action "<verb> <chord-string>", also when
\* the base holds only modifiers ("ctrl:down" gives ["keydown ctrl"]).
C1_DownUpSingleAction ==
    cpc = "done" /\ (mods # <<>> \/ key # <<>>) =>
        /\ EndsWith(chord, <<":", "down">>) =>
               result = <<Line("keydown", mods, key)>>
        /\ EndsWith(chord, <<":", "up">>) =>
               result = <<Line("keyup", mods, key)>>

\* C2: _talon_key_to_dotool_actions returns a list for every key spec and
\* never raises.
C2_TranslateNeverRaises ==
    raised # "ValueError"

\* C3: a chord with a repeat suffix ":N", N <= 0, emits exactly one action
\* whatever its base is.
C3_ClampedCountIsOne ==
    cpc = "done" /\ (ZeroSuffix(chord) \/ NegativeSuffix(chord)) =>
        Len(result) = 1

\* C3, amended: a chord with a repeat suffix ":N" of value 0 has verb "key"
\* and repeat count 1; it emits exactly one action "key <chord-string>"
\* when its base yields a key, the down/up pair of its modifiers when the
\* base holds only modifiers, and nothing when the base is empty.  A
\* negative number is no repeat suffix: the whole chord is the base, it
\* yields a key, and exactly one action "key <chord-string>" is emitted.
C3_ClampedToOneKeyAction ==
    cpc = "done" =>
        /\ ZeroSuffix(chord) =>
               /\ action = "key"
               /\ repeat = 1
               /\ key # <<>> => result = <<Line("key", mods, key)>>
               /\ key = <<>> => Len(result) = 2 * Len(mods)
        /\ NegativeSuffix(chord) =>
               /\ action = "key"
               /\ repeat = 1
               /\ base = chord
               /\ key # <<>>
               /\ result = <<Line("key", mods, key)>>

C3_Witness ==
    /\ cpc = "done"
    /\ ZeroSuffix(chord)
    /\ Len(SuffixText(chord)) = 2
    /\ mods # <<>>
    /\ key # <<>>
    /\ Len(result) = 1

\* C4: a chord with verb "key" and a non-empty normalized key emits exactly
\* `repeat` identical actions "key <chord-string>"; repeat is N for a suffix
\* ":N" with N >= 1 and 1 for a chord without suffix.
C4_KeyRepeated ==
    cpc = "done" /\ action = "key" /\ key # <<>> =>
        /\ Len(result) = repeat
        /\ \A i \in 1..Len(result) : result[i] = Line("key", mods, key)
        /\ PositiveSuffix(chord) =>
               repeat = NumberFrom(SuffixText(chord), 0)
        /\ ~HasColon(chord) => repeat = 1

C4_Witness ==
    /\ cpc = "done"
    /\ PositiveSuffix(chord)
    /\ mods # <<>>
    /\ key # <<>>
    /\ Len(result) = 3

\* C5: a chord with verb "key", modifiers m1..mk (k >= 1) and no key emits
\* keydown m1, ..., keydown mk, keyup mk, ..., keyup m1 and nothing else,
\* whatever its repeat count is.
C5_PureModifierPair ==
    cpc = "done" /\ action = "key" /\ key = <<>> /\ mods # <<>> =>
        /\ Len(result) = 2 * Len(mods)
        /\ \A i \in 1..Len(mods) :
               /\ result[i] = <<"keydown", " ">> \o mods[i]
               /\ result[2 * Len(mods) + 1 - i] = <<"keyup", " ">> \o mods[i]

C5_Witness ==
    /\ cpc = "done"
    /\ action = "key"
    /\ repeat = 3
    /\ key = <<>>
    /\ Len(mods) = 2
    /\ mods[1] # mods[2]
    /\ Len(result) = 4

\* Translate has just run: `raised` and `actions` hold what
\* _talon_key_to_dotool_actions(key_spec) raised or returned.
Translated ==
    \/ pc = "run"
    \/ pc = "return" /\ dotoolc = <<>> /\ Len(stderr) = 1
    \/ pc = "except" /\ dotoolc = <<>>

\* The translations of two key specs one after the other; an error of the
\* first, else of the second, comes instead of the list.
Concat(r1, r2) ==
    IF r1.exc # "none" THEN [exc |-> r1.exc, val |-> <<>>]
    ELSE IF r2.exc # "none" THEN [exc |-> r2.exc, val |-> <<>>]
    ELSE [exc |-> "none", val |-> r1.val \o r2.val]

\* C6: translate(s + " " + t) = translate(s) ++ translate(t) for all key
\* specs s and t, a key spec that is one chord translates as that chord, and
\* a key spec of whitespace alone (or the empty one) translates to [].
C6_Concatenation ==
    Translated =>
        LET got == [exc |-> raised, val |-> actions]
        IN /\ \A i \in 1..Len(key_spec) :
                  key_spec[i] = " " =>
                      got = Concat(
                          _talon_key_to_dotool_actions(
                              SubSeq(key_spec, 1, i - 1)),
                          _talon_key_to_dotool_actions(
                              SubSeq(key_spec, i + 1, Len(key_spec))))
           /\ (\A i \in 1..Len(key_spec) : key_spec[i] = " ") =>
                  got = [exc |-> "none", val |-> <<>>]
           /\ (key_spec # <<>> /\ \A i \in 1..Len(key_spec) : key_spec[i] # " ")
                  => got = _dotool_actions_for_chord(key_spec)

C6_Witness ==
    /\ pc = "run"
    /\ Len(key_spec) = 3
    /\ key_spec[2] = " "
    /\ Len(actions) = 2
    /\ actions[1] # actions[2]
    /\ actions[1] = _dotool_actions_for_chord(<<key_spec[1]>>).val[1]

C8_ModifierPrefix ==
    cpc = "alpha" =>
        /\ mods = WrittenMods(base)
        /\ key = WrittenKey(base)

C8_Witness ==
    /\ cpc = "alpha"
    /\ base = <<"ctrl", "-", "a", "-", "shift">>
    /\ mods = <<<<"ctrl">>>>
    /\ key = <<"a", "-", "shift">>

\* C9: when the key after modifier splitting is one uppercase letter, the
\* key becomes its lowercase form and "shift" is appended to the modifiers
\* unless it is among them, and the emitted actions carry that key and
\* those modifiers; for every other key the modifiers and the key are left
\* as they are.
C9_UppercaseRule ==
    LET k == WrittenKey(base)
        ms == WrittenMods(base)
        hasShift == \E i \in 1..Len(ms) : ms[i] = <<"shift">>
        shifted == IF hasShift THEN ms ELSE ms \o <<<<"shift">>>>
    IN /\ cpc = "name" =>
              IF IsUpperLetter(k)
              THEN mods = shifted /\ key = <<"a">>
              ELSE mods = ms /\ key = k
       /\ cpc = "done" /\ action # "" /\ IsUpperLetter(k) =>
              /\ result # <<>>
              /\ \A i \in 1..Len(result) :
                     result[i] = Line(action, shifted, <<"a">>)

C9_Witness ==
    /\ cpc = "done"
    /\ base = <<"shift", "-", "A">>
    /\ result = << <<"key", " ", "shift", "+", "a">> >>

\* C10: a chord [modifiers-]x:REST or [modifiers-]k:REST, REST not empty,
\* emits a "key" action whose key is x:REST or k:REST as written.
C10_RawKeycodePassesThrough ==
    cpc = "done" /\ IsRawKeycode(WrittenKey(chord)) =>
        /\ result # <<>>
        /\ \A i \in 1..Len(result) :
               result[i] = Line("key", WrittenMods(chord), WrittenKey(chord))

====
